---- MODULE Spec2Model ----
(***************************************************************************)
(* Model of the ranking and scoring engine of Clinical-genomic-rag-eval-pro *)
(* (src/src/*.py): the rank fuser hybrid_merge, the metric                  *)
(* retrieval_hit_at_k, the lexical index BM25Lite, the text metrics and the *)
(* evaluation runner.                                                       *)
(*                                                                          *)
(* Numbers.  Python floats are modelled by exact fixed-point integers.      *)
(* A fusion score is counted in ticks of 1/AlphaDen; the fusion weight      *)
(* alpha is alphaNum/AlphaDen; the input scores are whole numbers, that is  *)
(* multiples of AlphaDen ticks, so alpha * s is an exact number of ticks.   *)
(***************************************************************************)
EXTENDS Integers, Sequences, FiniteSets, TLC

VARIABLES
    pc,      \* position of the call under study: "call" before, "done" after
    args,    \* the arguments of the call under study
    ret,     \* what the call returned (NoRet before it returns)
    docs,    \* BM25Lite.docs: the Doc objects in corpus enumeration order
    N,       \* BM25Lite.N
    df,      \* BM25Lite.df: token -> number of documents holding it
    len,     \* BM25Lite.len: doc_id -> number of tokens
    avg,     \* BM25Lite.avg, the rational num/den
    memo,    \* an earlier retrieve call and its result, kept by the observer
    pipe,    \* run_eval.main: the Pipeline it constructed (NoPipe before)
    qi,      \* run_eval.main: index of the question the loop is at
    cur,     \* run_eval.main: (answer, contexts) of the current question
    results_jsonl,      \* run_eval.main: the records appended so far
    results_csv_rows,   \* run_eval.main: the CSV rows appended so far
    out_files,          \* what main wrote to out_dir (NoFiles before)
    run_calls           \* the calls of pipe.run made so far, by question index

index == <<docs, N, df, len, avg>>

runner == <<pipe, qi, cur, results_jsonl, results_csv_rows, out_files, run_calls>>

vars == <<pc, args, ret, docs, N, df, len, avg, memo,
          pipe, qi, cur, results_jsonl, results_csv_rows, out_files, run_calls>>

NoRet == [kind |-> "none"]

Min(a, b) == IF a < b THEN a ELSE b
Max(a, b) == IF a > b THEN a ELSE b

\* seq[:k] of Python: the first k entries; a negative k counts from the end.
PyPrefix(seq, k) ==
    IF k >= 0 THEN SubSeq(seq, 1, Min(k, Len(seq)))
    ELSE SubSeq(seq, 1, Max(Len(seq) + k, 0))

NoMemo == [kind |-> "none"]

EmptyMap == [x \in {} |-> 0]

NoPipe == [kind |-> "none"]

NoFiles == [kind |-> "none"]

\* run_eval.main is not running.
NoRunner ==
    /\ pipe = NoPipe
    /\ qi = 0
    /\ cur = NoRet
    /\ results_jsonl = <<>>
    /\ results_csv_rows = <<>>
    /\ out_files = NoFiles
    /\ run_calls = <<>>

\* No lexical index is in play.
NoIndex ==
    /\ docs = <<>>
    /\ N = 0
    /\ df = EmptyMap
    /\ len = EmptyMap
    /\ avg = [num |-> 0, den |-> 1]
    /\ memo = NoMemo

(***************************************************************************)
(* Text.  A text is a sequence of characters; a token is a non-empty        *)
(* sequence of lower-case alphanumeric characters.                          *)
(***************************************************************************)
LowerLetters ==
    <<"a", "b", "c", "d", "e", "f", "g", "h", "i", "j", "k", "l", "m",
      "n", "o", "p", "q", "r", "s", "t", "u", "v", "w", "x", "y", "z">>

UpperLetters ==
    <<"A", "B", "C", "D", "E", "F", "G", "H", "I", "J", "K", "L", "M",
      "N", "O", "P", "Q", "R", "S", "T", "U", "V", "W", "X", "Y", "Z">>

Digits == {"0", "1", "2", "3", "4", "5", "6", "7", "8", "9"}

\* str.lower() on one character
LowerChar(c) ==
    IF \E i \in 1..Len(UpperLetters) : UpperLetters[i] = c
    THEN LowerLetters[CHOOSE i \in 1..Len(UpperLetters) : UpperLetters[i] = c]
    ELSE c

\* str.lower()
Lower(text) == [i \in 1..Len(text) |-> LowerChar(text[i])]

\* the characters str.split() splits on
IsSpace(c) == c \in {" ", "\n"}

\* str.isalnum() on one character
IsAlnum(c) ==
    \/ \E i \in 1..Len(LowerLetters) : LowerLetters[i] = c \/ UpperLetters[i] = c
    \/ c \in Digits

\* str.split(): the maximal runs of non-space characters
Split(text) ==
    LET starts == SelectSeq([i \in 1..Len(text) |-> i],
                            LAMBDA i : /\ ~IsSpace(text[i])
                                       /\ (i = 1 \/ IsSpace(text[i - 1])))
        EndOf(i) == CHOOSE j \in i..Len(text) :
                        /\ \A m \in i..j : ~IsSpace(text[m])
                        /\ (j = Len(text) \/ IsSpace(text[j + 1]))
    IN  [n \in 1..Len(starts) |-> SubSeq(text, starts[n], EndOf(starts[n]))]

\* "".join(ch for ch in raw if ch.isalnum())
StripNonAlnum(raw) == SelectSeq(raw, IsAlnum)

\* the tokenizer loop over the fragments of text.lower().split()
RECURSIVE TokensOf(_)
TokensOf(raws) ==
    IF raws = <<>> THEN <<>>
    ELSE LET token == StripNonAlnum(Head(raws))
         IN  (IF token # <<>> THEN <<token>> ELSE <<>>) \o TokensOf(Tail(raws))

\* eval_metrics._tokenize
_tokenize(text) == TokensOf(Split(Lower(text)))

\* retriever_bm25._tok
_tok(s) == TokensOf(Split(Lower(s)))

ToSet(seq) == {seq[i] : i \in 1..Len(seq)}

\* number of entries of seq equal to x
Count(seq, x) == Cardinality({i \in 1..Len(seq) : seq[i] = x})

(***************************************************************************)
(* Rankings: sequences of (doc_id, score) pairs.                            *)
(***************************************************************************)
DocIds == {"d1", "d2", "d3"}

AlphaDen == 2      \* resolution of alpha: alpha = alphaNum / AlphaDen
MaxLen == 2        \* longest input ranking
MaxScore == 1      \* input scores are the whole numbers -1 .. MaxScore

ScoreVals == {AlphaDen * j : j \in (0 - 1)..MaxScore}

\* alpha values offered to the fuser: [0,1] in steps of 1/AlphaDen, and one
\* value on each side outside [0,1].
AlphaNums == (0 - 1)..(AlphaDen + 1)

Entry(d, s) == <<d, s>>
IdOf(e) == e[1]
ScoreOf(e) == e[2]

IdsOf(r) == {IdOf(r[i]) : i \in 1..Len(r)}

DistinctIds(r) == \A i, j \in 1..Len(r) : i # j => IdOf(r[i]) # IdOf(r[j])

SortedDesc(r) == \A i, j \in 1..Len(r) : i < j => ScoreOf(r[i]) >= ScoreOf(r[j])

\* A Ranking as the retrievers produce it: one entry per document, highest
\* score first.
Rankings ==
    {r \in UNION {[1..n -> DocIds \X ScoreVals] : n \in 0..MaxLen} :
        DistinctIds(r) /\ SortedDesc(r)}

\* sorted(items, key=lambda x: x[1], reverse=True): Python's sort is stable,
\* and stays stable under reverse=True (equal keys keep their input order).
RECURSIVE InsertDesc(_, _)
InsertDesc(sorted, e) ==
    IF sorted = <<>> THEN <<e>>
    ELSE IF ScoreOf(Head(sorted)) >= ScoreOf(e)
         THEN <<Head(sorted)>> \o InsertDesc(Tail(sorted), e)
         ELSE <<e>> \o sorted

RECURSIVE SortDescFrom(_, _)
SortDescFrom(acc, rest) ==
    IF rest = <<>> THEN acc
    ELSE SortDescFrom(InsertDesc(acc, Head(rest)), Tail(rest))

\* The sort without reverse=True: ascending, stable.
RECURSIVE InsertAsc(_, _)
InsertAsc(sorted, e) ==
    IF sorted = <<>> THEN <<e>>
    ELSE IF ScoreOf(Head(sorted)) <= ScoreOf(e)
         THEN <<Head(sorted)>> \o InsertAsc(Tail(sorted), e)
         ELSE <<e>> \o sorted

RECURSIVE SortAscFrom(_, _)
SortAscFrom(acc, rest) ==
    IF rest = <<>> THEN acc
    ELSE SortAscFrom(InsertAsc(acc, Head(rest)), Tail(rest))

sorted_by_score_asc(items) == SortAscFrom(<<>>, items)

sorted_by_score_desc(items) == SortDescFrom(<<>>, items)

(***************************************************************************)
(* hybrid_merge (retriever_hybrid.py).  The dict `scores` is a sequence of  *)
(* (key, value) pairs in insertion order, which is the order of             *)
(* scores.items().                                                          *)
(***************************************************************************)
\* alpha * s, exact: s is a multiple of AlphaDen ticks.
MulAlpha(alphaNum, s) == (alphaNum * s) \div AlphaDen

\* scores.get(doc, 0.0)
DictGet(scores, doc) ==
    IF \E i \in 1..Len(scores) : IdOf(scores[i]) = doc
    THEN ScoreOf(scores[CHOOSE i \in 1..Len(scores) : IdOf(scores[i]) = doc])
    ELSE 0

\* scores[doc] = v: an existing key keeps its place, a new key goes last.
DictSet(scores, doc, v) ==
    IF \E i \in 1..Len(scores) : IdOf(scores[i]) = doc
    THEN [i \in 1..Len(scores) |->
            IF IdOf(scores[i]) = doc THEN Entry(doc, v) ELSE scores[i]]
    ELSE Append(scores, Entry(doc, v))

\* for doc, s in ranking: scores[doc] = scores.get(doc, 0.0) + w * s
RECURSIVE Accumulate(_, _, _)
Accumulate(scores, ranking, wNum) ==
    IF ranking = <<>> THEN scores
    ELSE Accumulate(
            DictSet(scores, IdOf(Head(ranking)),
                    DictGet(scores, IdOf(Head(ranking)))
                        + MulAlpha(wNum, ScoreOf(Head(ranking)))),
            Tail(ranking), wNum)

\* hybrid_merge with the two weights exchanged.
hybrid_merge_swapped_weights(bm25, dense, alphaNum) ==
    sorted_by_score_desc(
        Accumulate(Accumulate(<<>>, bm25, AlphaDen - alphaNum), dense, alphaNum))

hybrid_merge(bm25, dense, alphaNum) ==
    sorted_by_score_desc(
        Accumulate(Accumulate(<<>>, bm25, alphaNum), dense, AlphaDen - alphaNum))

InitFuse ==
    /\ NoIndex
    /\ NoRunner
    /\ pc = "call"
    /\ args \in [fn : {"hybrid_merge"}, bm25 : Rankings, dense : Rankings,
                 alpha : AlphaNums]
    /\ ret = NoRet

\* The call of hybrid_merge: no argument is validated, a ranking is returned
\* for every alpha.
Fuse ==
    /\ pc = "call"
    /\ args.fn = "hybrid_merge"
    /\ ret' = [kind |-> "ranking",
               value |-> hybrid_merge(args.bm25, args.dense, args.alpha)]
    /\ pc' = "done"
    /\ UNCHANGED <<args, index, memo, runner>>

NextFuse == Fuse

SpecFuse == InitFuse /\ [][NextFuse]_vars

FuseDone == pc = "done" /\ args.fn = "hybrid_merge"

\* The score a ranking gives an identifier, 0.0 when it has none.
ScoreIn(r, d) ==
    IF d \in IdsOf(r)
    THEN ScoreOf(r[CHOOSE i \in 1..Len(r) : IdOf(r[i]) = d])
    ELSE 0

\* The entries of r whose identifier is in ids, in r's order.
RestrictTo(r, ids) == SelectSeq(r, LAMBDA e : IdOf(e) \in ids)

EntrySet(r) == {r[i] : i \in 1..Len(r)}

HasTie(r) == \E i, j \in 1..Len(r) : i # j /\ ScoreOf(r[i]) = ScoreOf(r[j])

\* C2 as stated: fuse(A, B, alpha=1.0) is exactly A and fuse(A, B, alpha=0.0)
\* is exactly B, same doc_ids, same order, same scores.
C2_FuseIdentityExact ==
    FuseDone =>
        /\ (args.alpha = AlphaDen => ret.value = args.bm25)
        /\ (args.alpha = 0 => ret.value = args.dense)

\* C2, amended: with alpha = 1.0 the result holds the entries of A with their
\* scores and in A's order, and one entry of score 0.0 for each doc_id that only
\* B has, so it is exactly A when B has no doc_id outside A; with alpha = 0.0 it
\* holds the entries of B with their scores, highest first, and one entry of
\* score 0.0 for each doc_id that only A has, and it is exactly B when A has no
\* doc_id outside B and no two entries of B have the same score.
C2_FuseIdentity ==
    FuseDone =>
        LET A == args.bm25
            B == args.dense
            R == ret.value
        IN  /\ (args.alpha = AlphaDen =>
                    /\ DistinctIds(R)
                    /\ IdsOf(R) = IdsOf(A) \cup IdsOf(B)
                    /\ RestrictTo(R, IdsOf(A)) = A
                    /\ \A i \in 1..Len(R) :
                          IdOf(R[i]) \notin IdsOf(A) => ScoreOf(R[i]) = 0
                    /\ (IdsOf(B) \subseteq IdsOf(A) => R = A))
            /\ (args.alpha = 0 =>
                    /\ DistinctIds(R)
                    /\ IdsOf(R) = IdsOf(A) \cup IdsOf(B)
                    /\ EntrySet(RestrictTo(R, IdsOf(B))) = EntrySet(B)
                    /\ SortedDesc(R)
                    /\ \A i \in 1..Len(R) :
                          IdOf(R[i]) \notin IdsOf(B) => ScoreOf(R[i]) = 0
                    /\ (IdsOf(A) \subseteq IdsOf(B) /\ ~HasTie(B) => R = B))

\* alpha = 1.0, B has a doc_id that A lacks, and A has two entries of one score.
C2_Witness ==
    /\ FuseDone
    /\ args.alpha = AlphaDen
    /\ ~(IdsOf(args.dense) \subseteq IdsOf(args.bm25))
    /\ HasTie(args.bm25)
    /\ Len(ret.value) > Len(args.bm25)

\* Position at which an identifier is first met scanning ranking_a, then
\* ranking_b.
FirstSeen(a, b, d) ==
    IF d \in IdsOf(a)
    THEN CHOOSE i \in 1..Len(a) : IdOf(a[i]) = d
    ELSE Len(a) + (CHOOSE i \in 1..Len(b) : IdOf(b[i]) = d)

\* C3: the result has one entry for each doc_id of the union of both inputs,
\* scored alpha * score_a + (1 - alpha) * score_b with 0.0 for a missing doc_id,
\* sorted by descending score, equal scores in first-encountered order
\* (ranking_a scanned before ranking_b).
C3_FuseUnionSorted ==
    FuseDone =>
        LET A == args.bm25
            B == args.dense
            R == ret.value
        IN  /\ DistinctIds(R)
            /\ IdsOf(R) = IdsOf(A) \cup IdsOf(B)
            /\ \A i \in 1..Len(R) :
                  AlphaDen * ScoreOf(R[i]) =
                      args.alpha * ScoreIn(A, IdOf(R[i]))
                      + (AlphaDen - args.alpha) * ScoreIn(B, IdOf(R[i]))
            /\ \A i, j \in 1..Len(R) :
                  i < j =>
                    \/ ScoreOf(R[i]) > ScoreOf(R[j])
                    \/ /\ ScoreOf(R[i]) = ScoreOf(R[j])
                       /\ FirstSeen(A, B, IdOf(R[i])) < FirstSeen(A, B, IdOf(R[j]))

\* 0 < alpha < 1, a doc_id in both inputs, one only in each, and two entries of
\* the result with one combined score.
C3_Witness ==
    /\ FuseDone
    /\ args.alpha > 0 /\ args.alpha < AlphaDen
    /\ IdsOf(args.bm25) \cap IdsOf(args.dense) # {}
    /\ IdsOf(args.bm25) \ IdsOf(args.dense) # {}
    /\ IdsOf(args.dense) \ IdsOf(args.bm25) # {}
    /\ HasTie(ret.value)
    /\ \E i \in 1..Len(ret.value) : ScoreOf(ret.value[i]) # 0

(***************************************************************************)
(* hybrid_merge in floating-point arithmetic.  A Python float is a binary   *)
(* floating-point number; the model keeps the format and the rounding       *)
(* (to nearest, ties to even) and shortens the significand from 53 bits to  *)
(* SigBits.  A weight or a fused score is a whole number of units of        *)
(* 2^-FracBits, the smallest positive number of the format; an input score  *)
(* is a whole number.                                                       *)
(***************************************************************************)
SigBits == 3       \* bits of the significand
FracBits == 4      \* 1.0 is 2^FracBits units
SymLen == 2        \* longest input ranking of the floating-point fuser

FlOne == 2 ^ FracBits

\* Number of bits of n > 0.
BitLen(n) == CHOOSE k \in 1..(FracBits + SigBits + 4) : 2 ^ (k - 1) <= n /\ n < 2 ^ k

\* The float nearest to the exact value n >= 0, ties to the even significand.
RoundSig(n) ==
    IF n < 2 ^ SigBits THEN n
    ELSE LET shift == BitLen(n) - SigBits
             q == n \div (2 ^ shift)
             r == n % (2 ^ shift)
             half == 2 ^ (shift - 1)
             up == r > half \/ (r = half /\ q % 2 = 1)
         IN  (IF up THEN q + 1 ELSE q) * (2 ^ shift)

\* 1.0 - alpha, for alpha in [0,1]
FlSubOne(alpha) == RoundSig(FlOne - alpha)

\* w * s, s a whole number
FlMul(w, s) == RoundSig(w * s)

\* x + y
FlAdd(x, y) == RoundSig(x + y)

\* The floats of [0,1].
FlAlphas == {a \in 0..FlOne : RoundSig(a) = a}

FlScores == {0, 1, 3}

\* Rankings over two documents: one entry per document, highest score first.
FlRankings ==
    {r \in UNION {[1..n -> {"d1", "d2"} \X FlScores] : n \in 0..SymLen} :
        DistinctIds(r) /\ SortedDesc(r)}

\* for doc, s in ranking: scores[doc] = scores.get(doc, 0.0) + w * s
RECURSIVE AccumulateFl(_, _, _)
AccumulateFl(scores, ranking, w) ==
    IF ranking = <<>> THEN scores
    ELSE AccumulateFl(
            DictSet(scores, IdOf(Head(ranking)),
                    FlAdd(DictGet(scores, IdOf(Head(ranking))),
                          FlMul(w, ScoreOf(Head(ranking))))),
            Tail(ranking), w)

\* hybrid_merge where the second loop leaves a document of the first loop as
\* it is.
hybrid_merge_float_first_wins(bm25, dense, alpha) ==
    sorted_by_score_desc(
        AccumulateFl(AccumulateFl(<<>>, bm25, alpha),
                     SelectSeq(dense, LAMBDA e : IdOf(e) \notin IdsOf(bm25)),
                     FlSubOne(alpha)))

\* hybrid_merge on floats
hybrid_merge_float(bm25, dense, alpha) ==
    sorted_by_score_desc(
        AccumulateFl(AccumulateFl(<<>>, bm25, alpha), dense, FlSubOne(alpha)))

InitSym ==
    /\ NoIndex
    /\ NoRunner
    /\ pc = "call"
    /\ args \in [fn : {"hybrid_merge"}, bm25 : FlRankings, dense : FlRankings,
                 alpha : FlAlphas]
    /\ ret = NoRet

\* The call of hybrid_merge.
FuseFloat ==
    /\ pc = "call"
    /\ args.fn = "hybrid_merge"
    /\ ret' = [kind |-> "ranking",
               value |-> hybrid_merge_float(args.bm25, args.dense, args.alpha)]
    /\ pc' = "done"
    /\ UNCHANGED <<args, index, memo, runner>>

\* The caller keeps the result and calls again with the rankings exchanged and
\* the weight 1.0 - alpha.
CallSwapped ==
    /\ pc = "done"
    /\ memo = NoMemo
    /\ memo' = [kind |-> "fused", alpha |-> args.alpha, value |-> ret.value]
    /\ args' = [fn |-> "hybrid_merge", bm25 |-> args.dense, dense |-> args.bm25,
                alpha |-> FlSubOne(args.alpha)]
    /\ ret' = NoRet
    /\ pc' = "call"
    /\ UNCHANGED <<index, runner>>

NextSym == FuseFloat \/ CallSwapped

SpecSym == InitSym /\ [][NextSym]_vars

\* Both calls have returned: memo holds fuse(A, B, alpha), ret holds
\* fuse(B, A, 1 - alpha).
SwappedDone == pc = "done" /\ memo # NoMemo /\ memo.kind = "fused"

\* C16 as stated: for alpha in [0,1] and every doc_id of either ranking, the
\* score of the doc_id in fuse(A, B, alpha) equals its score in
\* fuse(B, A, 1 - alpha).
C16_FuseSymmetry ==
    SwappedDone =>
        \A d \in IdsOf(args.bm25) \cup IdsOf(args.dense) :
            ScoreIn(memo.value, d) = ScoreIn(ret.value, d)

\* C16, amended: the same for the alpha for which 1.0 - (1.0 - alpha) is alpha
\* again.
C16_FuseSymmetryExactWeights ==
    (SwappedDone /\ FlSubOne(FlSubOne(memo.alpha)) = memo.alpha) =>
        \A d \in IdsOf(args.bm25) \cup IdsOf(args.dense) :
            ScoreIn(memo.value, d) = ScoreIn(ret.value, d)

\* An alpha other than 0.0, 0.5 and 1.0 that comes back from 1.0 - (1.0 - alpha),
\* and a document in both rankings with two different scores.
C16_Witness ==
    /\ SwappedDone
    /\ memo.alpha \notin {0, FlOne \div 2, FlOne}
    /\ FlSubOne(FlSubOne(memo.alpha)) = memo.alpha
    /\ \E d \in IdsOf(args.bm25) \cap IdsOf(args.dense) :
          /\ ScoreIn(args.bm25, d) # ScoreIn(args.dense, d)
          /\ ScoreIn(ret.value, d) > 0
    /\ Len(ret.value) = 2

(***************************************************************************)
(* retrieval_hit_at_k (eval_metrics.py).  An entry of `retrieved` is a      *)
(* record [shape, first, doc_id]:                                           *)
(*   shape "str"    a plain identifier string, doc_id;                     *)
(*   shape "dict"   a dict; doc_id is item.get("doc_id") when that is a    *)
(*                  string and NoId otherwise;                             *)
(*   shape "pair"   a list or tuple; `first` tells what item[0] is:        *)
(*                  "str" the identifier string doc_id itself, "dict" a    *)
(*                  dict, "obj" an object with attributes, "empty" when    *)
(*                  the tuple has no element;                              *)
(*   shape "obj"    any other object; doc_id is its attribute doc_id when  *)
(*                  that is a string and NoId otherwise.                   *)
(***************************************************************************)
NoId == "<none>"

HitIds == {"a", "b"}

MaxRetrieved == 2      \* longest `retrieved` list

RetrievedEntries ==
    [shape : {"str"}, first : {"-"}, doc_id : HitIds]
    \cup [shape : {"dict", "obj"}, first : {"-"}, doc_id : HitIds \cup {NoId}]
    \cup [shape : {"pair"}, first : {"dict", "obj"}, doc_id : HitIds \cup {NoId}]
    \cup [shape : {"pair"}, first : {"str"}, doc_id : HitIds]
    \cup [shape : {"pair"}, first : {"empty"}, doc_id : {NoId}]

\* The identifier the loop body appends for one item, NoId when it appends
\* nothing.
NormalizedId(item) ==
    CASE item.shape = "str" -> item.doc_id
      [] item.shape = "dict" -> item.doc_id
      [] item.shape = "pair" /\ item.first # "empty" ->
            IF item.first = "dict" THEN item.doc_id
            ELSE IF item.first = "obj" THEN item.doc_id
            ELSE NoId          \* getattr("<a string>", "doc_id", None) is None
      [] OTHER -> item.doc_id  \* the empty tuple and any object: getattr

\* the loop: for i, item in enumerate(retrieved): if i >= k: break
RECURSIVE CollectIds(_, _, _)
CollectIds(retrieved, i, k) ==
    IF i > Len(retrieved) \/ i - 1 >= k THEN <<>>
    ELSE LET did == NormalizedId(retrieved[i])
         IN  (IF did # NoId THEN <<did>> ELSE <<>>)
                 \o CollectIds(retrieved, i + 1, k)

retrieval_hit_at_k(retrieved, gold_doc_ids, k) ==
    LET ids == CollectIds(retrieved, 1, k)
    IN  IF \E i \in 1..Len(ids) : ids[i] \in gold_doc_ids THEN 1 ELSE 0

InitHit ==
    /\ NoIndex
    /\ NoRunner
    /\ pc = "call"
    /\ args \in [fn : {"retrieval_hit_at_k"},
                 retrieved : UNION {[1..n -> RetrievedEntries] : n \in 0..MaxRetrieved},
                 gold_doc_ids : SUBSET HitIds,
                 k : 0..(MaxRetrieved + 1)]
    /\ ret = NoRet

HitAtK ==
    /\ pc = "call"
    /\ args.fn = "retrieval_hit_at_k"
    /\ ret' = [kind |-> "float",
               value |-> retrieval_hit_at_k(args.retrieved, args.gold_doc_ids, args.k)]
    /\ pc' = "done"
    /\ UNCHANGED <<args, index, memo, runner>>

NextHit == HitAtK

SpecHit == InitHit /\ [][NextHit]_vars

\* The identifier an entry carries, whatever its shape.
CarriedId(item) == item.doc_id

\* C1: hit_at_k is 1.0 exactly when one of the first k entries carries an
\* identifier of gold_doc_ids, for a plain identifier, an (identifier, score)
\* pair and an identifier-bearing record alike, and 0.0 otherwise.
C1_HitAtK ==
    (pc = "done" /\ args.fn = "retrieval_hit_at_k") =>
        /\ ret.kind = "float"
        /\ ret.value =
             IF \E i \in 1..Min(args.k, Len(args.retrieved)) :
                    CarriedId(args.retrieved[i]) \in args.gold_doc_ids
             THEN 1 ELSE 0

(***************************************************************************)
(* BM25Lite (retriever_bm25.py).  A BM25 score is counted in millionths.    *)
(***************************************************************************)
K1Halves == 3         \* k1 = 1.5, counted in halves
BQuarters == 3        \* b = 0.75, counted in quarters

MaxDocs == 2          \* largest corpus

\* The files of the corpus directory: texts as sequences of characters.
CorpusTexts ==
    { <<>>,
      <<"A", ".", " ", "b">>,
      <<"b", " ", "a", "\n", "a">> }

Queries ==
    { <<"B", " ", "a">>,
      <<".">> }

Doc(doc_id, text) == [doc_id |-> doc_id, text |-> text]

\* os.listdir gives the files in an order of its own: any order of distinct
\* file names.
Corpora ==
    {c \in UNION {[1..n -> [doc_id : DocIds, text : CorpusTexts]] : n \in 0..MaxDocs} :
        \A i, j \in 1..Len(c) : i # j => c[i].doc_id # c[j].doc_id}

RECURSIVE SumLen(_)
SumLen(ds) == IF ds = <<>> THEN 0 ELSE Len(_tok(Head(ds).text)) + SumLen(Tail(ds))

\* BM25Lite.__init__ after the directory is read: N, df, len, avg.
IndexN(ds) == Len(ds)

IndexDf(ds) ==
    LET toks == UNION {ToSet(_tok(ds[i].text)) : i \in 1..Len(ds)}
    IN  [t \in toks |-> Cardinality({i \in 1..Len(ds) : t \in ToSet(_tok(ds[i].text))})]

IndexLen(ds) ==
    [d \in {ds[i].doc_id : i \in 1..Len(ds)} |->
        Len(_tok(ds[CHOOSE i \in 1..Len(ds) : ds[i].doc_id = d].text))]

\* total / self.N if self.N else 0
IndexAvg(ds) ==
    IF Len(ds) # 0 /\ SumLen(ds) # 0
    THEN [num |-> SumLen(ds), den |-> Len(ds)]
    ELSE [num |-> 0, den |-> 1]

\* The idf without the + 1.0: math.log((N - df + 0.5) / (df + 0.5)).
IdfMicro_without_plus_one(n, dfreq) ==
    LET table == <<
            <<0 - 1098612>>,
            <<0, 0 - 1609438>>,
            <<510826, 0 - 510826, 0 - 1945910>>,
            <<847298, 0, 0 - 847298, 0 - 2197225>>,
            <<1098612, 336472, 0 - 336472, 0 - 1098612, 0 - 2397895>>,
            <<1299283, 587787, 0, 0 - 587787, 0 - 1299283, 0 - 2564949>> >>
    IN  table[n][dfreq]

\* math.log((N - df + 0.5) / (df + 0.5) + 1.0) in millionths, rounded; the
\* argument is (2N + 2) / (2 df + 1).
IdfMicro(n, dfreq) ==
    LET table == <<
            <<287682>>,
            <<693147, 182322>>,
            <<980829, 470004, 133531>>,
            <<1203973, 693147, 356675, 105361>>,
            <<1386294, 875469, 538997, 287682, 87011>>,
            <<1540445, 1029619, 693147, 441833, 241162, 74108>> >>
    IN  table[n][dfreq]

\* self.df.get(term, 0)
DfGet(term) == IF term \in DOMAIN df THEN df[term] ELSE 0

\* The term's contribution with the denominator a product,
\*   freq * k1 * (1 - b + b * L / (avg or 1.0)).
TermScore_denominator_product(term, dt) ==
    LET freq == Count(dt, term)
        L == Len(dt)
        aNum == IF avg.num = 0 THEN 1 ELSE avg.num
        aDen == IF avg.num = 0 THEN 1 ELSE avg.den
        num == freq * (K1Halves + 2) * 4 * aNum
        den == freq * K1Halves * ((4 - BQuarters) * aNum + BQuarters * L * aDen)
    IN  IF freq = 0 THEN 0
        ELSE IF DfGet(term) = 0 THEN 0
        ELSE (IdfMicro(N, DfGet(term)) * num) \div den

\* One pass of the loop over the query terms; the term's contribution is
\*   idf * (freq * (k1 + 1) / (freq + k1 * (1 - b + b * L / (avg or 1.0)))),
\* the fraction brought to the common denominator 8 * avg.num.
TermScore(term, dt) ==
    LET freq == Count(dt, term)
        L == Len(dt)
        aNum == IF avg.num = 0 THEN 1 ELSE avg.num
        aDen == IF avg.num = 0 THEN 1 ELSE avg.den
        num == freq * (K1Halves + 2) * 4 * aNum
        den == 8 * freq * aNum
               + K1Halves * ((4 - BQuarters) * aNum + BQuarters * L * aDen)
    IN  IF freq = 0 THEN 0                      \* term not in tf
        ELSE IF DfGet(term) = 0 THEN 0
        ELSE (IdfMicro(N, DfGet(term)) * num) \div den

RECURSIVE SumTerms(_, _)
SumTerms(qts, dt) ==
    IF qts = <<>> THEN 0 ELSE TermScore(Head(qts), dt) + SumTerms(Tail(qts), dt)

\* BM25Lite.score
score(q, d) == IF N = 0 THEN 0 ELSE SumTerms(_tok(q), _tok(d.text))

\* retrieve with the slice taken from the ascending sort.
retrieve_ascending(q, top_k) ==
    PyPrefix(sorted_by_score_asc([i \in 1..Len(docs) |->
                                    Entry(docs[i].doc_id, score(q, docs[i]))]),
             top_k)

\* BM25Lite.retrieve
retrieve(q, top_k) ==
    PyPrefix(sorted_by_score_desc([i \in 1..Len(docs) |->
                                     Entry(docs[i].doc_id, score(q, docs[i]))]),
             top_k)

InitBM25 ==
    /\ docs \in Corpora
    /\ N = IndexN(docs)
    /\ df = IndexDf(docs)
    /\ len = IndexLen(docs)
    /\ avg = IndexAvg(docs)
    /\ memo = NoMemo
    /\ NoRunner
    /\ pc = "index"
    /\ args = [fn |-> "__init__"]
    /\ ret = NoRet

\* A call of BM25Lite.score(q, d) for a document of the index.
Score(q, i) ==
    /\ pc = "index"
    /\ args' = [fn |-> "score", q |-> q, doc_id |-> docs[i].doc_id]
    /\ ret' = [kind |-> "float", value |-> score(q, docs[i])]
    /\ UNCHANGED <<pc, index, memo, runner>>

\* What the observer does with a retrieve call and its result: nothing, or keep
\* them in memo, or note that the kept call has been made again.
Observe(q, top_k, ranking) ==
    \/ memo' = memo
    \/ /\ memo = NoMemo
       /\ memo' = [kind |-> "call", q |-> q, top_k |-> top_k,
                   value |-> ranking, again |-> FALSE]
    \/ /\ memo # NoMemo
       /\ memo.q = q /\ memo.top_k = top_k
       /\ memo' = [memo EXCEPT !.again = TRUE]

\* retrieve sorting self.docs in place instead of the list of scores.
Retrieve_sorts_docs(q, top_k) ==
    LET ranking == retrieve(q, top_k)
        full == retrieve(q, Len(docs))
    IN  /\ pc = "index"
        /\ args' = [fn |-> "retrieve", q |-> q, top_k |-> top_k]
        /\ ret' = [kind |-> "ranking", value |-> ranking]
        /\ docs' = [i \in 1..Len(docs) |->
                      docs[CHOOSE j \in 1..Len(docs) : docs[j].doc_id = IdOf(full[i])]]
        /\ Observe(q, top_k, ranking)
        /\ UNCHANGED <<pc, N, df, len, avg, runner>>

\* A call of BM25Lite.retrieve(q, top_k): `scored` is a local list, nothing of
\* the index is assigned.
Retrieve(q, top_k) ==
    LET ranking == retrieve(q, top_k)
    IN  /\ pc = "index"
        /\ args' = [fn |-> "retrieve", q |-> q, top_k |-> top_k]
        /\ ret' = [kind |-> "ranking", value |-> ranking]
        /\ Observe(q, top_k, ranking)
        /\ UNCHANGED <<pc, index, runner>>

\* top_k values offered: one negative, and up to one more than the corpus has.
TopKs == (0 - 1)..(Len(docs) + 1)

NextBM25 ==
    \/ \E q \in Queries, i \in 1..Len(docs) : Score(q, i)
    \/ \E q \in Queries, k \in TopKs : Retrieve(q, k)

SpecBM25 == InitBM25 /\ [][NextBM25]_vars

\* The ranking fuser and the lexical index side by side.
SpecRank == (InitFuse \/ InitBM25) /\ [][NextFuse \/ NextBM25]_vars

RetrieveDone == pc = "index" /\ args.fn = "retrieve"

\* Position of a document in corpus enumeration order.
PosOf(d) == CHOOSE i \in 1..Len(docs) : docs[i].doc_id = d

\* C4: retrieve(query, top_k), top_k >= 0, returns min(top_k, document_count)
\* entries, each a document with its score; they are the documents that come
\* first when all documents are ordered by descending score with equal scores in
\* corpus enumeration order, and they are returned in that order.
C4_RetrieveTopK ==
    (RetrieveDone /\ args.top_k >= 0) =>
        LET R == ret.value
        IN  /\ ret.kind = "ranking"
            /\ Len(R) = Min(args.top_k, N)
            /\ DistinctIds(R)
            /\ \A i \in 1..Len(R) :
                 \E j \in 1..Len(docs) :
                    /\ docs[j].doc_id = IdOf(R[i])
                    /\ ScoreOf(R[i]) = score(args.q, docs[j])
            /\ \A i, j \in 1..Len(R) :
                 i < j =>
                    \/ ScoreOf(R[i]) > ScoreOf(R[j])
                    \/ /\ ScoreOf(R[i]) = ScoreOf(R[j])
                       /\ PosOf(IdOf(R[i])) < PosOf(IdOf(R[j]))
            /\ \A i \in 1..Len(R), j \in 1..Len(docs) :
                 docs[j].doc_id \notin IdsOf(R) =>
                    \/ ScoreOf(R[i]) > score(args.q, docs[j])
                    \/ /\ ScoreOf(R[i]) = score(args.q, docs[j])
                       /\ PosOf(IdOf(R[i])) < j

\* top_k above the corpus size, two documents of one non-zero score, listed by
\* the directory in an order that is not the order of their names.
C4_Witness ==
    /\ RetrieveDone
    /\ N = 2
    /\ args.top_k > N
    /\ docs[1].doc_id = "d2" /\ docs[2].doc_id = "d1"
    /\ Len(ret.value) = 2
    /\ HasTie(ret.value)
    /\ ScoreOf(ret.value[1]) > 0

\* C5: a configuration error is rejected: fuse with alpha outside [0,1] and
\* retrieve with a negative top_k fail with an error and return no ranking.
C5_ConfigErrorsRejected ==
    /\ (FuseDone /\ args.alpha \notin 0..AlphaDen) => ret.kind = "error"
    /\ (RetrieveDone /\ args.top_k < 0) => ret.kind = "error"

\* C10: no score or retrieve call changes docs, N, df, len or avg, and a
\* retrieve call with the query and top_k of an earlier call returns the Ranking
\* the earlier call returned.
C10_IndexFrozen ==
    [][ /\ index' = index
        /\ (args'.fn = "retrieve" /\ memo # NoMemo
                /\ memo.q = args'.q /\ memo.top_k = args'.top_k)
              => ret'.value = memo.value ]_vars

\* A kept retrieve call has been made again on a two-document index, and the
\* last call was a score call.
C10_Witness ==
    /\ pc = "index"
    /\ N = 2
    /\ memo # NoMemo
    /\ memo.again
    /\ Len(memo.value) = 2
    /\ args.fn = "score"

(***************************************************************************)
(* BM25Lite over a corpus of two documents, top_k = 1.                      *)
(***************************************************************************)
PairTexts ==
    { <<>>,
      <<"a">>,
      <<"c">>,
      <<"B", ",", " ", "a">>,
      <<"a", " ", "b", " ", "c", " ", "c", " ", "c">> }

PairQueries ==
    { <<"b">>,
      <<"A", " ", "b", ".">>,
      <<"a", " ", "a", " ", "a", " ", "a", " ", "a", " ", "b">>,
      <<"?">> }

\* The two files of the directory, in either listing order.
PairCorpora ==
    {c \in [1..2 -> [doc_id : {"d1", "d2"}, text : PairTexts]] :
        c[1].doc_id # c[2].doc_id}

InitPair ==
    /\ docs \in PairCorpora
    /\ N = IndexN(docs)
    /\ df = IndexDf(docs)
    /\ len = IndexLen(docs)
    /\ avg = IndexAvg(docs)
    /\ memo = NoMemo
    /\ NoRunner
    /\ pc = "index"
    /\ args = [fn |-> "__init__"]
    /\ ret = NoRet

NextPair == \E q \in PairQueries : Retrieve(q, 1)

SpecPair == InitPair /\ [][NextPair]_vars

\* The document holds every token of the query, respectively none of them.
ContainsAll(q, d) == ToSet(_tok(q)) \subseteq ToSet(_tok(d.text))
ContainsNone(q, d) == ToSet(_tok(q)) \cap ToSet(_tok(d.text)) = {}

\* C11 as stated: on a corpus of two documents of which only one holds every
\* token of the query, retrieve(query, top_k=1) returns one entry, and its
\* doc_id is that document.
C11_Top1OnlyFullMatch ==
    (RetrieveDone /\ N = 2 /\ args.top_k = 1) =>
        \A i \in 1..2 :
            (ContainsAll(args.q, docs[i]) /\ ~ContainsAll(args.q, docs[3 - i])) =>
                (Len(ret.value) = 1 /\ IdOf(ret.value[1]) = docs[i].doc_id)

\* C11, amended: on a corpus of two documents of which one holds every token of
\* the query and the other holds none of them, retrieve(query, top_k=1) returns
\* one entry, its doc_id is the first document and its score is above 0.
C11_Top1SoleMatch ==
    (RetrieveDone /\ N = 2 /\ args.top_k = 1) =>
        \A i \in 1..2 :
            (/\ ContainsAll(args.q, docs[i])
             /\ ~ContainsAll(args.q, docs[3 - i])
             /\ ContainsNone(args.q, docs[3 - i])) =>
                /\ Len(ret.value) = 1
                /\ IdOf(ret.value[1]) = docs[i].doc_id
                /\ ScoreOf(ret.value[1]) > 0

\* The directory lists the document without any query token first, it is not
\* empty, and the query has two tokens.
C11_Witness ==
    /\ RetrieveDone /\ N = 2 /\ args.top_k = 1
    /\ Len(_tok(args.q)) = 2
    /\ ContainsAll(args.q, docs[2])
    /\ ContainsNone(args.q, docs[1])
    /\ Len(_tok(docs[1].text)) > 0
    /\ IdOf(ret.value[1]) = docs[2].doc_id

(***************************************************************************)
(* A corpus file gets one more occurrence of a query token and a new         *)
(* BM25Lite is constructed over the directory.                               *)
(***************************************************************************)
\* The file of docs[i] with the token t appended after a space, then
\* BM25Lite.__init__ again.  memo keeps the score of the document before.
AddOccurrence(q, i, t) ==
    LET ds == [docs EXCEPT ![i].text = @ \o <<" ">> \o t]
    IN  /\ pc = "index"
        /\ memo = NoMemo
        /\ t \in ToSet(_tok(q))
        /\ memo' = [kind |-> "added", q |-> q, doc_id |-> docs[i].doc_id,
                    token |-> t, before |-> score(q, docs[i])]
        /\ docs' = ds
        /\ N' = IndexN(ds)
        /\ df' = IndexDf(ds)
        /\ len' = IndexLen(ds)
        /\ avg' = IndexAvg(ds)
        /\ args' = [fn |-> "__init__"]
        /\ ret' = NoRet
        /\ UNCHANGED <<pc, runner>>

NextMono ==
    \/ \E q \in PairQueries, i \in 1..Len(docs) : Score(q, i)
    \/ \E q \in PairQueries, i \in 1..Len(docs) :
          \E t \in ToSet(_tok(q)) : AddOccurrence(q, i, t)

SpecMono == InitPair /\ [][NextMono]_vars

\* The score call is for the query and the document of the addition.
ScoredAfterAdd ==
    /\ memo # NoMemo
    /\ memo.kind = "added"
    /\ args.fn = "score"
    /\ args.q = memo.q
    /\ args.doc_id = memo.doc_id

\* The text of the document of the addition, as it is now.
AddedText == docs[CHOOSE i \in 1..Len(docs) : docs[i].doc_id = memo.doc_id].text

\* C12 as stated: after one more occurrence of a token of the query is added
\* to d and the index is rebuilt, the score of d against the query is not below
\* the score it had.
C12_Monotone == ScoredAfterAdd => ret.value >= memo.before

\* C12, amended: the same, for a document that holds no token of the query
\* other than the added one.
C12_MonotoneSoleToken ==
    (ScoredAfterAdd /\ ToSet(_tok(memo.q)) \cap ToSet(_tok(AddedText)) = {memo.token})
        => ret.value >= memo.before

\* The token was in the document and in the other document before, the score
\* was above 0 and the addition raised it.
C12_Witness ==
    /\ ScoredAfterAdd
    /\ ToSet(_tok(memo.q)) \cap ToSet(_tok(AddedText)) = {memo.token}
    /\ Count(_tok(AddedText), memo.token) = 2
    /\ df[memo.token] = 2
    /\ memo.before > 0
    /\ ret.value > memo.before

(***************************************************************************)
(* The text metrics (eval_metrics.py, faithfulness.py).                     *)
(*                                                                          *)
(* A Python value is a record [t, s, items]:                                *)
(*   t = "str"   the string s;                                              *)
(*   t = "null"  None;                                                      *)
(*   t = "list"  the list of the values items;                              *)
(*   t = "dict"  the dict of the entries items, each [k, v], in insertion   *)
(*               order.                                                     *)
(* A ratio of two counts is the record [num, den], den > 0.                 *)
(***************************************************************************)
PyStr(text) == [t |-> "str", s |-> text, items |-> <<>>]
PyNone == [t |-> "null", s |-> <<>>, items |-> <<>>]
PyList(values) == [t |-> "list", s |-> <<>>, items |-> values]
PyDict(entries) == [t |-> "dict", s |-> <<>>, items |-> entries]
KV(key, value) == [k |-> key, v |-> value]

Ratio(n, d) == [num |-> n, den |-> d]
Zero == Ratio(0, 1)

HasKey(d, key) == \E i \in 1..Len(d.items) : d.items[i].k = key

\* d[key] of a dict that has the key
ValueAt(d, key) == d.items[CHOOSE i \in 1..Len(d.items) : d.items[i].k = key].v

\* d.get(key): None when the key is missing
DictGetValue(d, key) == IF HasKey(d, key) THEN ValueAt(d, key) ELSE PyNone

\* needle in hay, for strings
IsSubstring(needle, hay) ==
    \E i \in 0..(Len(hay) - Len(needle)) : SubSeq(hay, i + 1, i + Len(needle)) = needle

\* json.dumps escapes of the characters of a string
RECURSIVE JsonEscape(_)
JsonEscape(text) ==
    IF text = <<>> THEN <<>>
    ELSE (CASE Head(text) = "\n" -> <<"\\", "n">>
            [] Head(text) = "\"" -> <<"\\", "\"">>
            [] Head(text) = "\\" -> <<"\\", "\\">>
            [] OTHER -> <<Head(text)>>) \o JsonEscape(Tail(text))

\* json.dumps(value, ensure_ascii=False), separators ", " and ": "
RECURSIVE JsonDump(_)
RECURSIVE JsonItems(_)
RECURSIVE JsonEntries(_)
JsonItems(values) ==
    IF values = <<>> THEN <<>>
    ELSE JsonDump(Head(values))
         \o (IF Tail(values) = <<>> THEN <<>> ELSE <<",", " ">> \o JsonItems(Tail(values)))

JsonEntries(entries) ==
    IF entries = <<>> THEN <<>>
    ELSE <<"\"">> \o JsonEscape(Head(entries).k) \o <<"\"", ":", " ">>
         \o JsonDump(Head(entries).v)
         \o (IF Tail(entries) = <<>> THEN <<>> ELSE <<",", " ">> \o JsonEntries(Tail(entries)))

JsonDump(value) ==
    CASE value.t = "str" -> <<"\"">> \o JsonEscape(value.s) \o <<"\"">>
      [] value.t = "null" -> <<"n", "u", "l", "l">>
      [] value.t = "list" -> <<"[">> \o JsonItems(value.items) \o <<"]">>
      [] value.t = "dict" -> <<"{">> \o JsonEntries(value.items) \o <<"}">>

TextKeys ==
    << <<"t", "e", "x", "t">>,
       <<"a", "n", "s", "w", "e", "r">>,
       <<"o", "u", "t", "p", "u", "t">>,
       <<"c", "o", "n", "t", "e", "n", "t">> >>

\* the keys of TextKeys, in order, whose value in the dict is a string
TextKeyHits(answer) ==
    SelectSeq(TextKeys, LAMBDA key : DictGetValue(answer, key).t = "str")

\* _as_text with the zero floor: an empty text for a dict without a text field.
as_text_empty_for_malformed(answer) ==
    IF answer.t = "str" THEN answer.s
    ELSE IF answer.t = "dict"
         THEN IF TextKeyHits(answer) # <<>>
              THEN DictGetValue(answer, Head(TextKeyHits(answer))).s
              ELSE <<>>
    ELSE <<"N", "o", "n", "e">>

\* _as_text: a str as it is; a dict by its first text field that is a str, else
\* by its JSON dump; anything else by str(answer), here str(None).  Every value
\* of the model is JSON-serializable, so json.dumps does not raise.
_as_text(answer) ==
    IF answer.t = "str" THEN answer.s
    ELSE IF answer.t = "dict"
         THEN IF TextKeyHits(answer) # <<>>
              THEN DictGetValue(answer, Head(TextKeyHits(answer))).s
              ELSE JsonDump(answer)
    ELSE <<"N", "o", "n", "e">>

\* keyword_coverage with an empty keyword list counted as full coverage.
keyword_coverage_vacuous_one(answer, expected_keywords) ==
    IF expected_keywords = <<>> THEN Ratio(1, 1)
    ELSE LET ans_l == Lower(_as_text(answer))
             hits == Cardinality({i \in 1..Len(expected_keywords) :
                                    IsSubstring(Lower(expected_keywords[i]), ans_l)})
         IN  Ratio(hits, Len(expected_keywords))

\* keyword_coverage
keyword_coverage(answer, expected_keywords) ==
    IF expected_keywords = <<>> THEN Zero
    ELSE LET ans_l == Lower(_as_text(answer))
             hits == Cardinality({i \in 1..Len(expected_keywords) :
                                    IsSubstring(Lower(expected_keywords[i]), ans_l)})
         IN  Ratio(hits, Len(expected_keywords))

\* context_overlap
context_overlap(answer, context_text) ==
    LET ans_tokens == _tokenize(_as_text(answer))
        ctx_tokens == ToSet(_tokenize(context_text))
        hits == Cardinality({i \in 1..Len(ans_tokens) : ans_tokens[i] \in ctx_tokens})
    IN  IF ans_tokens = <<>> THEN Zero ELSE Ratio(hits, Len(ans_tokens))

\* the loop of claim_evidence_pr: ev |= set(_tok(c.get("quote", "")))
RECURSIVE EvidenceTokens(_)
EvidenceTokens(citations) ==
    IF citations = <<>> THEN {}
    ELSE (IF HasKey(Head(citations), <<"q", "u", "o", "t", "e">>)
          THEN ToSet(_tokenize(ValueAt(Head(citations), <<"q", "u", "o", "t", "e">>).s))
          ELSE {})
         \cup EvidenceTokens(Tail(citations))

\* _tok(x) raises AttributeError when x has no method lower: a quote that is
\* present and is not a string.
QuoteRaises(citations) ==
    \E i \in 1..Len(citations) :
        /\ HasKey(citations[i], <<"q", "u", "o", "t", "e">>)
        /\ ValueAt(citations[i], <<"q", "u", "o", "t", "e">>).t # "str"

\* claim_evidence_pr with the recall taken over the claim tokens.
claim_evidence_pr_recall_over_claim(claim, citations) ==
    LET cl == ToSet(_tokenize(claim))
        ev == EvidenceTokens(citations)
        tp == Cardinality(cl \cap ev)
    IN  IF cl = {} \/ ev = {} THEN <<Zero, Zero, Zero>>
        ELSE <<Ratio(tp, Cardinality(cl)),
               Ratio(tp, Cardinality(cl)),
               IF tp > 0 THEN Ratio(2 * tp * tp, 2 * tp * Cardinality(cl)) ELSE Zero>>

\* claim_evidence_pr on citations whose quotes are strings or missing:
\* (prec, rec, f1), f1 = (2 * prec * rec) / (prec + rec).
claim_evidence_pr(claim, citations) ==
    LET cl == ToSet(_tokenize(claim))
        ev == EvidenceTokens(citations)
        tp == Cardinality(cl \cap ev)
    IN  IF cl = {} \/ ev = {} THEN <<Zero, Zero, Zero>>
        ELSE <<Ratio(tp, Cardinality(cl)),
               Ratio(tp, Cardinality(ev)),
               IF tp > 0
               THEN Ratio(2 * tp * tp * Cardinality(cl) * Cardinality(ev),
                          Cardinality(cl) * Cardinality(ev)
                              * (tp * Cardinality(ev) + tp * Cardinality(cl)))
               ELSE Zero>>

MaxCitations == 2     \* longest list of citations

QuoteKey == <<"q", "u", "o", "t", "e">>
DocIdKey == <<"d", "o", "c", "_", "i", "d">>
ClaimKey == <<"c", "l", "a", "i", "m">>

AnswerTexts == { <<>>, <<"a", " ", "B", ".">> }

\* Answers: strings, dicts with and without a text field, and None.
Answers ==
    {PyStr(t) : t \in AnswerTexts}
    \cup { PyDict(<<>>),
           PyDict(<<KV(ClaimKey, PyStr(<<"a", " ", "B", ".">>))>>),
           PyDict(<<KV(ClaimKey, PyStr(<<"b">>)), KV(TextKeys[1], PyNone)>>),
           PyDict(<<KV(ClaimKey, PyStr(<<"b">>)), KV(TextKeys[2], PyStr(<<"a", " ", "B", ".">>))>>),
           PyDict(<<KV(<<"c", "i", "t", "e", "s">>, PyList(<<PyStr(<<"b">>), PyNone>>))>>),
           PyNone }

KeywordLists ==
    { <<>>,
      << <<"b">> >>,
      << <<"A">>, <<"z">> >>,
      << ClaimKey, <<"a", " ", "b">> >> }

ContextTexts == { <<>>, <<"B", " ", "c", "l", "a", "i", "m">>, <<"z">> }

Citations ==
    { PyDict(<<KV(DocIdKey, PyStr(<<"d", "1">>))>>),
      PyDict(<<KV(DocIdKey, PyStr(<<"d", "1">>)), KV(QuoteKey, PyStr(<<"a", " ", "b">>))>>),
      PyDict(<<KV(QuoteKey, PyStr(<<"B", ".">>))>>),
      PyDict(<<KV(QuoteKey, PyNone)>>) }

ClaimTexts == { <<>>, <<"a", " ", "B", ".">>, <<"z">> }

InitMetrics ==
    /\ NoIndex
    /\ NoRunner
    /\ pc = "call"
    /\ ret = NoRet
    /\ \/ args \in [fn : {"keyword_coverage"}, answer : Answers,
                    expected_keywords : KeywordLists]
       \/ args \in [fn : {"context_overlap"}, answer : Answers,
                    context_text : ContextTexts]
       \/ args \in [fn : {"claim_evidence_pr"}, claim : ClaimTexts,
                    citations : UNION {[1..n -> Citations] : n \in 0..MaxCitations}]

KeywordCoverage ==
    /\ pc = "call"
    /\ args.fn = "keyword_coverage"
    /\ ret' = [kind |-> "float",
               value |-> keyword_coverage(args.answer, args.expected_keywords)]
    /\ pc' = "done"
    /\ UNCHANGED <<args, index, memo, runner>>

ContextOverlap ==
    /\ pc = "call"
    /\ args.fn = "context_overlap"
    /\ ret' = [kind |-> "float",
               value |-> context_overlap(args.answer, args.context_text)]
    /\ pc' = "done"
    /\ UNCHANGED <<args, index, memo, runner>>

ClaimEvidencePR ==
    /\ pc = "call"
    /\ args.fn = "claim_evidence_pr"
    /\ ret' = IF QuoteRaises(args.citations)
              THEN [kind |-> "raise", value |-> "AttributeError"]
              ELSE [kind |-> "triple",
                    value |-> claim_evidence_pr(args.claim, args.citations)]
    /\ pc' = "done"
    /\ UNCHANGED <<args, index, memo, runner>>

NextMetrics == KeywordCoverage \/ ContextOverlap \/ ClaimEvidencePR

SpecMetrics == InitMetrics /\ [][NextMetrics]_vars

\* An answer object without any of the expected text fields.
LacksTextFields(answer) ==
    /\ answer.t = "dict"
    /\ \A i \in 1..Len(TextKeys) :
         ~HasKey(answer, TextKeys[i]) \/ ValueAt(answer, TextKeys[i]).t # "str"

\* Citations that lack a quote.
LackQuotes(citations) ==
    \A i \in 1..Len(citations) : ~HasKey(citations[i], QuoteKey)

MetricDone(fn) == pc = "done" /\ args.fn = fn

\* C9 as stated: for an answer object without the expected text fields
\* keyword_coverage and context_overlap return 0.0, for citations without a quote
\* claim_evidence_pr returns (0.0, 0.0, 0.0), and none of these calls raises.
C9_ZeroFloor ==
    /\ (MetricDone("keyword_coverage") /\ LacksTextFields(args.answer)) =>
            (ret.kind = "float" /\ ret.value.num = 0)
    /\ (MetricDone("context_overlap") /\ LacksTextFields(args.answer)) =>
            (ret.kind = "float" /\ ret.value.num = 0)
    /\ (MetricDone("claim_evidence_pr") /\ LackQuotes(args.citations)) =>
            (ret.kind = "triple" /\ ret.value = <<Zero, Zero, Zero>>)

\* C9, amended: none of these calls raises; for an answer dict without a text
\* field keyword_coverage and context_overlap are computed over the JSON
\* serialization of the dict (0.0 only when no expected keyword occurs in it,
\* respectively when none of its tokens occurs in the reference text); for
\* citations without a quote claim_evidence_pr returns (0.0, 0.0, 0.0).
C9_MalformedInput ==
    /\ (MetricDone("keyword_coverage") /\ LacksTextFields(args.answer)) =>
          LET dump == Lower(JsonDump(args.answer))
              kws == args.expected_keywords
          IN  /\ ret.kind = "float"
              /\ ret.value.den = Max(Len(kws), 1)
              /\ ret.value.num =
                   Cardinality({i \in 1..Len(kws) : IsSubstring(Lower(kws[i]), dump)})
    /\ (MetricDone("context_overlap") /\ LacksTextFields(args.answer)) =>
          LET toks == _tokenize(JsonDump(args.answer))
              ctx == ToSet(_tokenize(args.context_text))
          IN  /\ ret.kind = "float"
              /\ ret.value.den = Max(Len(toks), 1)
              /\ ret.value.num = Cardinality({i \in 1..Len(toks) : toks[i] \in ctx})
    /\ (MetricDone("claim_evidence_pr") /\ LackQuotes(args.citations)) =>
            (ret.kind = "triple" /\ ret.value = <<Zero, Zero, Zero>>)

\* keyword_coverage of an answer dict without a text field came out above 0.0.
C9_Witness ==
    /\ MetricDone("keyword_coverage")
    /\ LacksTextFields(args.answer)
    /\ args.answer.items # <<>>
    /\ ret.value.num > 0

\* The quotes of the citations, a missing quote being the empty string.
QuoteTokenSets(citations) ==
    {ToSet(_tokenize(IF HasKey(citations[i], QuoteKey)
                     THEN ValueAt(citations[i], QuoteKey).s
                     ELSE <<>>)) : i \in 1..Len(citations)}

\* Equality of two ratios of counts.
SameRatio(r, n, d) == r.num * d = n * r.den

\* C13: claim_evidence_pr over the token set of the claim and the union of the
\* token sets of the quotes: precision = |claim /\ evidence| / |claim|, recall =
\* |claim /\ evidence| / |evidence|, f1 their harmonic mean; all three 0.0 when
\* one of the two sets is empty; f1 > 0.0 exactly when the sets share a token.
C13_ClaimEvidencePR ==
    (MetricDone("claim_evidence_pr") /\ ~QuoteRaises(args.citations)) =>
        LET cl == ToSet(_tokenize(args.claim))
            ev == UNION QuoteTokenSets(args.citations)
            tp == Cardinality(cl \cap ev)
            prec == ret.value[1]
            rec == ret.value[2]
            f1 == ret.value[3]
        IN  /\ ret.kind = "triple"
            /\ (cl = {} \/ ev = {}) =>
                  (prec.num = 0 /\ rec.num = 0 /\ f1.num = 0)
            /\ (cl # {} /\ ev # {}) =>
                  /\ SameRatio(prec, tp, Cardinality(cl))
                  /\ SameRatio(rec, tp, Cardinality(ev))
                  /\ SameRatio(f1, 2 * tp, Cardinality(cl) + Cardinality(ev))
            /\ prec.den > 0 /\ rec.den > 0 /\ f1.den > 0
            /\ (f1.num > 0) <=> (cl \cap ev # {})

\* Two citations, one without a quote; the claim has a token the evidence
\* lacks, so precision and recall differ.
C13_Witness ==
    /\ MetricDone("claim_evidence_pr")
    /\ Len(args.citations) = 2
    /\ \E i \in 1..2 : ~HasKey(args.citations[i], QuoteKey)
    /\ ret.kind = "triple"
    /\ ret.value[1].num * ret.value[2].den < ret.value[2].num * ret.value[1].den
    /\ ret.value[3].num > 0

\* A ratio of counts that lies in [0,1].
InUnitInterval(r) == r.den > 0 /\ 0 <= r.num /\ r.num <= r.den

\* C15: keyword_coverage and context_overlap return a value in [0,1];
\* keyword_coverage is 0.0 for an empty expected_keywords and context_overlap is
\* 0.0 when the text of the answer has no token.
C15_CoverageBounds ==
    /\ MetricDone("keyword_coverage") =>
          /\ ret.kind = "float"
          /\ InUnitInterval(ret.value)
          /\ args.expected_keywords = <<>> => ret.value.num = 0
    /\ MetricDone("context_overlap") =>
          /\ ret.kind = "float"
          /\ InUnitInterval(ret.value)
          /\ _tokenize(_as_text(args.answer)) = <<>> => ret.value.num = 0

\* context_overlap strictly between 0.0 and 1.0 for a string answer.
C15_Witness ==
    /\ MetricDone("context_overlap")
    /\ args.answer.t = "str"
    /\ args.context_text # <<>>
    /\ 0 < ret.value.num
    /\ ret.value.num < ret.value.den

(***************************************************************************)
(* The error tags (error_taxonomy.py).  Metric values and thresholds are     *)
(* counted in tenths; a dict is a function on the set of its keys.           *)
(***************************************************************************)
OneTenths == 10               \* 1.0
DefaultLowCoverage == 4       \* thresholds.get("low_coverage", 0.4)
DefaultLowOverlap == 5        \* thresholds.get("low_overlap", 0.5)

MetricKeys == {"hit@k", "keyword_coverage", "context_overlap", "citation_recall"}
ThresholdKeys == {"low_coverage", "low_overlap"}

MetricTenths == {0, 4, 10}
ThresholdTenths == {0, 5, 10}

MetricDicts == UNION {[K -> MetricTenths] : K \in SUBSET MetricKeys}
ThresholdDicts == UNION {[K -> ThresholdTenths] : K \in SUBSET ThresholdKeys}

\* d.get(key, default)
GetOr(d, key, default) == IF key \in DOMAIN d THEN d[key] ELSE default

\* tag_errors with the thresholds inclusive (<= in place of <).
tag_errors_inclusive_thresholds(metrics, thresholds) ==
    [no_hit_at_k |-> GetOr(metrics, "hit@k", 0) < OneTenths,
     low_coverage |-> GetOr(metrics, "keyword_coverage", 0)
                        <= GetOr(thresholds, "low_coverage", DefaultLowCoverage),
     low_overlap |-> GetOr(metrics, "context_overlap", 0)
                        <= GetOr(thresholds, "low_overlap", DefaultLowOverlap),
     no_citations |-> GetOr(metrics, "citation_recall", 0) = 0]

\* tag_errors
tag_errors(metrics, thresholds) ==
    [no_hit_at_k |-> GetOr(metrics, "hit@k", 0) < OneTenths,
     low_coverage |-> GetOr(metrics, "keyword_coverage", 0)
                        < GetOr(thresholds, "low_coverage", DefaultLowCoverage),
     low_overlap |-> GetOr(metrics, "context_overlap", 0)
                        < GetOr(thresholds, "low_overlap", DefaultLowOverlap),
     no_citations |-> GetOr(metrics, "citation_recall", 0) = 0]

InitTags ==
    /\ NoIndex
    /\ NoRunner
    /\ pc = "call"
    /\ args \in [fn : {"tag_errors"}, metrics : MetricDicts, thresholds : ThresholdDicts]
    /\ ret = NoRet

TagErrors ==
    /\ pc = "call"
    /\ args.fn = "tag_errors"
    /\ ret' = [kind |-> "dict", value |-> tag_errors(args.metrics, args.thresholds)]
    /\ pc' = "done"
    /\ UNCHANGED <<args, index, memo, runner>>

NextTags == TagErrors

SpecTags == InitTags /\ [][NextTags]_vars

\* The threshold in force: the one given, else the default.
ThresholdInForce(key, default) ==
    IF key \in DOMAIN args.thresholds THEN args.thresholds[key] ELSE default

\* C14: each tag is a function of its own metric and threshold only:
\* no_hit_at_k = (hit@k < 1.0), low_coverage = (keyword_coverage < low-coverage
\* threshold, default 0.4), low_overlap = (context_overlap < low-overlap
\* threshold, default 0.5), no_citations = (citation_recall == 0.0); so hit@k =
\* 0.0 always gives no_hit_at_k and citation_recall = 0.0 always gives
\* no_citations.
C14_TagErrors ==
    (MetricDone("tag_errors") /\ DOMAIN args.metrics = MetricKeys) =>
        LET bundle == args.metrics
            tags == ret.value
        IN  /\ DOMAIN tags = {"no_hit_at_k", "low_coverage", "low_overlap", "no_citations"}
            /\ tags.no_hit_at_k <=> bundle["hit@k"] < 10
            /\ tags.low_coverage <=>
                  bundle["keyword_coverage"] < ThresholdInForce("low_coverage", 4)
            /\ tags.low_overlap <=>
                  bundle["context_overlap"] < ThresholdInForce("low_overlap", 5)
            /\ tags.no_citations <=> bundle["citation_recall"] = 0
            /\ bundle["hit@k"] = 0 => tags.no_hit_at_k
            /\ bundle["citation_recall"] = 0 => tags.no_citations

\* hit@k = 0.0 and citation_recall = 0.0 in a bundle whose coverage equals the
\* default threshold and whose overlap is 1.0: only the two tags are set.
C14_Witness ==
    /\ MetricDone("tag_errors")
    /\ DOMAIN args.metrics = MetricKeys
    /\ DOMAIN args.thresholds = {"low_overlap"}
    /\ args.metrics["hit@k"] = 0
    /\ args.metrics["citation_recall"] = 0
    /\ args.metrics["keyword_coverage"] = 4
    /\ args.metrics["context_overlap"] = 10
    /\ ret.value = [no_hit_at_k |-> TRUE, low_coverage |-> FALSE,
                    low_overlap |-> FALSE, no_citations |-> TRUE]

(***************************************************************************)
(* Pipeline (pipeline.py), the stub LLMClient (llm_client.py) and the       *)
(* runner main (runners/run_eval.py).  The corpus files hold no section     *)
(* marker and fewer than 280 characters.                                    *)
(***************************************************************************)
KnownKinds == {"bm25", "dense", "hybrid"}

MaxQuestions == 2     \* longest list of questions

\* An int: no operation of the model reads its magnitude.
PyInt == [t |-> "int", s |-> <<>>, items |-> <<>>]

\* The file name of a document, as a string of characters.
NameChars(doc_id) ==
    (CASE doc_id = "d1" -> <<"d", "1">>
       [] doc_id = "d2" -> <<"d", "2">>
       [] doc_id = "d3" -> <<"d", "3">>
       [] OTHER -> <<"d", "9">>) \o <<".", "m", "d">>

QuestionId(i) == <<"q", CHOOSE c \in Digits : c = ToString(i)>>

\* str.strip()
RECURSIVE LStrip(_)
LStrip(text) ==
    IF text # <<>> /\ IsSpace(Head(text)) THEN LStrip(Tail(text)) ELSE text

RECURSIVE RStrip(_)
RStrip(text) ==
    IF text # <<>> /\ IsSpace(text[Len(text)])
    THEN RStrip(SubSeq(text, 1, Len(text) - 1))
    ELSE text

Strip(text) == RStrip(LStrip(text))

\* pick_quotes(doc_text, top_n=1)[0]: the text is one chunk, stripped; an
\* all-blank text has no chunk and is taken as it is.
PickQuote(doc_text) == IF Strip(doc_text) # <<>> THEN Strip(doc_text) ELSE doc_text

\* self.corpus[doc_id] of Pipeline: load_corpus read the same directory
CorpusText(doc_id) == docs[CHOOSE i \in 1..Len(docs) : docs[i].doc_id = doc_id].text

\* the contexts loop of Pipeline.run
Contexts(ranked) ==
    [i \in 1..Len(ranked) |->
        PyDict(<<KV(DocIdKey, PyStr(NameChars(IdOf(ranked[i])))),
                 KV(QuoteKey, PyStr(PickQuote(CorpusText(IdOf(ranked[i])))))>>)]

\* " ".join(c["quote"] for c in contexts if c.get("quote"))
RECURSIVE JoinQuotes(_)
JoinQuotes(contexts) ==
    IF contexts = <<>> THEN <<>>
    ELSE LET quote == ValueAt(Head(contexts), QuoteKey).s
             rest == JoinQuotes(Tail(contexts))
         IN  IF quote = <<>> THEN rest
             ELSE IF rest = <<>> THEN quote
             ELSE quote \o <<" ">> \o rest

NoGroundedAnswer ==
    <<"N", "o", " ", "g", "r", "o", "u", "n", "d", "e", "d", " ",
      "a", "n", "s", "w", "e", "r", ".">>

KindChars(kind) ==
    CASE kind = "bm25" -> <<"b", "m", "2", "5">>
      [] kind = "dense" -> <<"d", "e", "n", "s", "e">>
      [] kind = "hybrid" -> <<"h", "y", "b", "r", "i", "d">>
      [] OTHER -> <<"s", "p", "l", "a", "d", "e">>

\* LLMClient("stub").answer(question, contexts, 280), then answer["id"] = qid
\* and answer["metadata"]["retriever"] = retriever_kind.
StubAnswer(qid, contexts, kind) ==
    LET ctx_text == JoinQuotes(contexts)
    IN  PyDict(<<
            KV(ClaimKey, PyStr(IF ctx_text # <<>> THEN ctx_text ELSE NoGroundedAnswer)),
            KV(<<"c", "i", "t", "a", "t", "i", "o", "n", "s">>, PyList(contexts)),
            KV(<<"m", "e", "t", "a", "d", "a", "t", "a">>,
               PyDict(<<KV(<<"m", "o", "d", "e", "l">>, PyStr(<<"s", "t", "u", "b">>)),
                        KV(<<"r", "e", "t", "r", "i", "e", "v", "e", "r">>,
                           PyStr(KindChars(kind)))>>)),
            KV(<<"i", "d">>, qid) >>)

\* Pipeline.run(qid, question, top_k), question a Python value.  It returns
\* (answer, contexts) or raises:
\*   ValueError      the retriever kind is not bm25, dense or hybrid;
\*   RuntimeError    dense or hybrid: DenseRetriever needs sentence-transformers
\*                   and faiss, which the modelled environment does not have;
\*   AttributeError  bm25 on a non-empty index: _tok(q) calls q.lower().
PipelineRun(kind, qid, question, top_k) ==
    IF kind = "bm25"
    THEN IF question.t # "str" /\ N # 0
         THEN [kind |-> "raise", exc |-> "AttributeError"]
         ELSE LET ranked == IF N = 0 THEN <<>> ELSE retrieve(question.s, top_k)
                  contexts == Contexts(ranked)
              IN  [kind |-> "ok",
                   answer |-> StubAnswer(qid, contexts, kind),
                   contexts |-> contexts]
    ELSE IF kind \in {"dense", "hybrid"}
         THEN [kind |-> "raise", exc |-> "RuntimeError"]
    ELSE [kind |-> "raise", exc |-> "ValueError"]

\* _concat_docs: the gold documents that exist, joined by newlines
RECURSIVE ConcatDocs(_)
ConcatDocs(doc_ids) ==
    IF doc_ids = <<>> THEN <<>>
    ELSE LET rest == ConcatDocs(Tail(doc_ids))
             here == \E i \in 1..Len(docs) : docs[i].doc_id = Head(doc_ids)
         IN  IF ~here THEN rest
             ELSE IF \A j \in 2..Len(doc_ids) :
                        \A i \in 1..Len(docs) : docs[i].doc_id # doc_ids[j]
                  THEN CorpusText(Head(doc_ids))
             ELSE CorpusText(Head(doc_ids)) \o <<"\n">> \o rest

\* compute_score with alpha = 0.5, the default of cfg["metrics"]["alpha"]
compute_score(coverage, overlap) ==
    Ratio(coverage.num * overlap.den + overlap.num * coverage.den,
          2 * coverage.den * overlap.den)

\* to_dict(evaluate_single(...))
EvalMetrics(qid, answer, expected_keywords, context_text) ==
    LET cov == keyword_coverage(answer, expected_keywords)
        ov == context_overlap(answer, context_text)
    IN  [question_id |-> qid,
         keyword_coverage |-> cov,
         context_overlap |-> ov,
         score |-> compute_score(cov, ov)]

\* s.replace("\n", " ")
ReplaceNewlines(text) == [i \in 1..Len(text) |-> IF text[i] = "\n" THEN " " ELSE text[i]]

\* s.rsplit(" ", 1)[0]
BeforeLastSpace(text) ==
    IF \E i \in 1..Len(text) : text[i] = " "
    THEN SubSeq(text, 1, (CHOOSE i \in 1..Len(text) :
                            text[i] = " " /\ \A j \in (i + 1)..Len(text) : text[j] # " ") - 1)
    ELSE text

\* _answer_preview(answer, max_len=120)
AnswerPreview(answer) ==
    LET text == ReplaceNewlines(_as_text(answer))
    IN  IF Len(text) > 120
        THEN BeforeLastSpace(SubSeq(text, 1, 120)) \o <<".", ".", ".">>
        ELSE text

\* the "retrieved_docs" of a record: the contexts carry no score
RetrievedDocs(contexts) ==
    [i \in 1..Len(contexts) |->
        [doc_id |-> DictGetValue(contexts[i], DocIdKey),
         score |-> DictGetValue(contexts[i], <<"s", "c", "o", "r", "e">>)]]

\* the record main appends for a question
Record(q, answer, contexts) ==
    [id |-> q.id,
     question |-> q.question,
     answer_preview |-> AnswerPreview(answer),
     answer_raw |-> IF answer.t = "dict" THEN answer ELSE PyNone,
     expected_keywords |-> q.expected_keywords,
     must_be_grounded_in |-> q.must_be_grounded_in,
     metrics |-> EvalMetrics(q.id, answer, q.expected_keywords,
                             ConcatDocs(q.must_be_grounded_in)),
     retrieved_docs |-> RetrievedDocs(contexts)]

\* the CSV row main appends for a question
CsvRow(q, answer) ==
    [id |-> q.id,
     keyword_coverage |-> keyword_coverage(answer, q.expected_keywords),
     context_overlap |-> context_overlap(answer, ConcatDocs(q.must_be_grounded_in)),
     score |-> compute_score(keyword_coverage(answer, q.expected_keywords),
                             context_overlap(answer, ConcatDocs(q.must_be_grounded_in)))]

EvalCorpora ==
    { <<>>,
      <<Doc("d2", <<"A", ".", " ", "b">>), Doc("d1", <<"b", " ", "a", "\n", "a">>)>> }

\* The entries of eval_questions.json; "question" is a string or, in a
\* malformed file, null.
QuestionBodies ==
    [question : {PyStr(<<"B", " ", "a">>), PyNone},
     expected_keywords : {<<>>, << <<"b">> >>},
     must_be_grounded_in : {<<>>, <<"d9", "d1">>}]

QuestionLists ==
    {[i \in 1..Len(b) |->
        [id |-> PyStr(QuestionId(i)),
         question |-> b[i].question,
         expected_keywords |-> b[i].expected_keywords,
         must_be_grounded_in |-> b[i].must_be_grounded_in]] :
     b \in UNION {[1..n -> QuestionBodies] : n \in 0..MaxQuestions}}

\* main(cfg_path) starts, or a caller is about to use a Pipeline of its own.
\* The configuration and the questions are what the files hold, after the
\* command-line overrides: cfg.kind is cfg["retrieval"]["kind"], cfg.top_k is
\* cfg["retrieval"]["top_k"].
InitEval ==
    /\ NoIndex
    /\ NoRunner
    /\ pc = "construct"
    /\ args \in [fn : {"main", "Pipeline.run"},
                 cfg : [kind : KnownKinds \cup {"splade"}, top_k : {1, 5}],
                 corpus : EvalCorpora,
                 questions : QuestionLists]
    /\ ret = NoRet

\* The construction loop of main: _Pipeline(corpus_dir=..., config=cfg) raises
\* TypeError, Pipeline.__init__ has no parameter config; the next try,
\* _Pipeline(corpus_dir=str(corpus_dir)), succeeds.  cfg["retrieval"]["kind"] is
\* not passed on, retriever_kind is the default "bm25".
Construct ==
    /\ pc = "construct"
    /\ args.fn = "main"
    /\ docs' = args.corpus
    /\ N' = IndexN(args.corpus)
    /\ df' = IndexDf(args.corpus)
    /\ len' = IndexLen(args.corpus)
    /\ avg' = IndexAvg(args.corpus)
    /\ pipe' = [kind |-> "Pipeline", retriever_kind |-> "bm25"]
    /\ qi' = 1
    /\ pc' = "loop"
    /\ UNCHANGED <<args, ret, memo, cur, results_jsonl, results_csv_rows,
                   out_files, run_calls>>

\* The loop body up to the first call, pipe.run(qid=qid, question=question,
\* top_k=top_k).  Pipeline.run takes these keywords, so it raises no TypeError
\* here; any other exception is caught by `except Exception`.
RunQuestion ==
    /\ pc = "loop"
    /\ qi <= Len(args.questions)
    /\ LET q == args.questions[qi]
           r == PipelineRun(pipe.retriever_kind, q.id, q.question, args.cfg.top_k)
       IN  /\ run_calls' = Append(run_calls, qi)
           /\ IF r.kind = "ok"
              THEN cur' = r /\ pc' = "metrics"
              ELSE cur' = NoRet /\ pc' = "retry"
    /\ UNCHANGED <<args, ret, index, memo, pipe, qi, results_jsonl,
                   results_csv_rows, out_files>>

\* The handler of `except Exception`: pipe.run(question, top_k), that is
\* qid = question, question = top_k (an int) and top_k = 5.  An exception raised
\* here leaves main.
RetryRun ==
    /\ pc = "retry"
    /\ LET q == args.questions[qi]
           r == PipelineRun(pipe.retriever_kind, q.question, PyInt, 5)
       IN  /\ run_calls' = Append(run_calls, qi)
           /\ IF r.kind = "ok"
              THEN cur' = r /\ pc' = "metrics" /\ ret' = ret
              ELSE /\ cur' = NoRet
                   /\ pc' = "crashed"
                   /\ ret' = [kind |-> "raise", exc |-> r.exc]
    /\ UNCHANGED <<args, index, memo, pipe, qi, results_jsonl,
                   results_csv_rows, out_files>>

\* The rest of the loop body: the metrics, the record, the CSV row.
Evaluate ==
    /\ pc = "metrics"
    /\ LET q == args.questions[qi]
       IN  /\ results_jsonl' = Append(results_jsonl, Record(q, cur.answer, cur.contexts))
           /\ results_csv_rows' = Append(results_csv_rows, CsvRow(q, cur.answer))
    /\ cur' = NoRet
    /\ qi' = qi + 1
    /\ pc' = "loop"
    /\ UNCHANGED <<args, ret, index, memo, pipe, out_files, run_calls>>

\* After the loop: the artifacts are written and main returns.
WriteArtifacts ==
    /\ pc = "loop"
    /\ qi > Len(args.questions)
    /\ out_files' = [kind |-> "files", jsonl |-> results_jsonl,
                     csv |-> results_csv_rows, html |-> TRUE]
    /\ ret' = [kind |-> "dict", n |-> Len(results_jsonl)]
    /\ pc' = "done"
    /\ UNCHANGED <<args, index, memo, pipe, qi, cur, results_jsonl,
                   results_csv_rows, run_calls>>

\* Pipeline(corpus_dir, retriever_kind=kind), by a caller other than main.
ConstructPipeline ==
    /\ pc = "construct"
    /\ args.fn = "Pipeline.run"
    /\ docs' = args.corpus
    /\ N' = IndexN(args.corpus)
    /\ df' = IndexDf(args.corpus)
    /\ len' = IndexLen(args.corpus)
    /\ avg' = IndexAvg(args.corpus)
    /\ pipe' = [kind |-> "Pipeline", retriever_kind |-> args.cfg.kind]
    /\ pc' = "pipeline"
    /\ UNCHANGED <<args, ret, memo, qi, cur, results_jsonl, results_csv_rows,
                   out_files, run_calls>>

\* That caller's pipe.run(qid, question, top_k) for one of the questions.
Run ==
    /\ pc = "pipeline"
    /\ \E i \in 1..Len(args.questions) :
          LET q == args.questions[i]
          IN  /\ ret' = PipelineRun(pipe.retriever_kind, q.id, q.question, args.cfg.top_k)
              /\ run_calls' = Append(run_calls, i)
    /\ pc' = "returned"
    /\ UNCHANGED <<args, index, memo, pipe, qi, cur, results_jsonl,
                   results_csv_rows, out_files>>

NextEval ==
    \/ Construct \/ RunQuestion \/ RetryRun \/ Evaluate \/ WriteArtifacts
    \/ ConstructPipeline \/ Run

MetricBundle ==
    {"hit_at_k", "citation_recall", "keyword_coverage", "context_overlap",
     "faithfulness_stub", "faithfulness_precision", "faithfulness_recall",
     "faithfulness_f1"}

\* C6: with a retrieval mode other than bm25, dense and hybrid in the
\* configuration, the question fails with an error before any answer or record is
\* produced for it, and the Pipeline main runs has the configured mode, never a
\* default one.
C6_UnknownModeFails ==
    args.cfg.kind \notin KnownKinds =>
        /\ cur = NoRet
        /\ results_jsonl = <<>>
        /\ pc = "returned" => ret.kind = "raise"
        /\ pipe # NoPipe => pipe.retriever_kind = args.cfg.kind

\* C7: main calls pipe.run at most once for a question, and a question whose
\* step fails does not end the run: main does not end with that exception, the
\* records of the other questions are written and the failure is in the output.
C7_NoRetryOneRecordAborted ==
    args.fn = "main" =>
        /\ \A i \in 1..Len(args.questions) : Count(run_calls, i) <= 1
        /\ pc # "crashed"

\* C8: every question main has processed has exactly one record, with the
\* identifier of the question, the eight metrics of the Metric Bundle, the Tag
\* Set and the ranking used, each entry with its score.
C8_OneFullRecord ==
    args.fn = "main" /\ pc \in {"loop", "done"} =>
        /\ Len(results_jsonl) = qi - 1
        /\ \A i \in 1..Len(results_jsonl) :
              LET record == results_jsonl[i]
              IN  /\ record.id = args.questions[i].id
                  /\ MetricBundle \subseteq DOMAIN record.metrics
                  /\ "tags" \in DOMAIN record
                  /\ \A j \in 1..Len(record.retrieved_docs) :
                        record.retrieved_docs[j].score # PyNone

SpecEval == InitEval /\ [][NextEval]_vars

====
